---- MODULE Spec2Model ----
(***************************************************************************)
(* A model of sideeffect/main.py: the SideEffect state cell.  A cell holds *)
(* a value, a side-effect callback and flags; setState commits a value and *)
(* runs the callback on the caller or on a new threading.Thread.           *)
(*                                                                         *)
(* setState is modelled statement by statement (one action per source      *)
(* line that reads or writes a field of the cell), so that calling         *)
(* contexts interleave the way Python threads do.  The callback is opaque: *)
(* an invocation may return, raise, or never finish.                       *)
(***************************************************************************)
EXTENDS Integers, Sequences, FiniteSets, TLC

\* ---------------------------------------------------------------- bounds
\* setState calls issued in one behaviour (by all calling contexts together)
MaxCalls == 3
\* setState calls issued in one behaviour of SpecConcurrent
MaxRacingCalls == 2
MaxFairCalls == 2
\* the values written are 0..MaxValue
MaxValue == 1

Values == 0..MaxValue

\* ------------------------------------------------------- Python objects
\* The objects a caller can pass, tagged with their Python type.
PyNone == [type |-> "NoneType"]
PyBool(b) == [type |-> "bool", val |-> b]
PyInt(n) == [type |-> "int", val |-> n]
PyThread(i) == [type |-> "Thread", id |-> i]

\* isinstance(obj, datatype); bool is a subclass of int, nothing is a bool
\* but True and False.
isinstance(obj, datatype) ==
    \/ obj.type = datatype
    \/ datatype = "int" /\ obj.type = "bool"

callable(obj) == obj.type = "function"

\* Mutant: the isinstance test is missing.
typecheck_accepts_all(obj, datatype) == TRUE

\* typecheck(obj, datatype) returns (TRUE) or raises TypeError (FALSE).
typecheck(obj, datatype) ==
    IF datatype = "function"
    THEN callable(obj)
    ELSE isinstance(obj, datatype)

\* bool(obj), as `if obj:` computes it.
truthy(obj) ==
    CASE obj.type = "NoneType" -> FALSE
      [] obj.type = "bool" -> obj.val
      [] obj.type = "int" -> obj.val # 0
      [] OTHER -> TRUE

\* What callers pass for the keyword arguments of setState: the documented
\* values and a malformed one.
AsynchronousArgs == {PyNone, PyBool(TRUE), PyBool(FALSE), PyInt(1)}
CancelArgs == {PyBool(TRUE), PyBool(FALSE), PyInt(1)}

\* ----------------------------------------------------------------- state
VARIABLES
    _state,                 \* self._state
    _asynchronous,          \* self._asynchronous
    _dependent,             \* self._dependent
    _side_effect_paused,    \* self._side_effect_paused
    _side_effect_thread,    \* self._side_effect_thread: None or a Thread
    threads,                \* the Thread objects created so far: i |-> status
    ctx,                    \* the calling contexts that use the cell
    pc,                     \* where each calling context is in setState
    call,                   \* each context's current (or last) setState call
    ncalls,                 \* setState calls issued so far
    invocations,            \* times the cell has invoked or started the effect
    raised,                 \* threads whose effect raised
    excepthook,             \* threads whose exception reached threading.excepthook
    observed                \* the value the last read of the state property returned

vars == <<_state, _asynchronous, _dependent, _side_effect_paused,
          _side_effect_thread, threads, ctx, pc, call, ncalls, invocations,
          raised, excepthook, observed>>

cell == <<_state, _asynchronous, _dependent, _side_effect_paused, _side_effect_thread>>

Contexts == {1, 2}

\* A Thread object: created by threading.Thread(...), started by start(), running the
\* target, then finished; or running a target that never returns.
ThreadStatus == {"created", "started", "running", "hung", "finished"}

\* The threads whose effect has been started and has not finished.
Unfinished == {i \in DOMAIN threads : threads[i] \in {"started", "running", "hung"}}

\* The record of a context that has not called setState yet.
\* outcome: "none", "running", "ok" (returned) or the exception raised;
\* value, asynchronous, cancel_side_effect: the parameters, asynchronous as
\* line 94 leaves it; given: asynchronous as the caller passed it;
\* joinee: the thread line 97 joins; launched: the thread line 105 created;
\* before: the effect invocations counted when the call began;
\* effect: what the effect called at line 110 has done.
NoCall ==
    [outcome |-> "none", value |-> 0, given |-> PyNone, asynchronous |-> PyNone,
     cancel_side_effect |-> PyBool(FALSE), joinee |-> PyNone,
     launched |-> PyNone, before |-> 0, effect |-> "none"]

\* The cell after __init__(default, side_effect, asynchronous=a, dependent=d).
InitCell ==
    /\ _state \in Values
    /\ _asynchronous \in BOOLEAN
    /\ _dependent \in BOOLEAN
    /\ _side_effect_paused = FALSE
    /\ _side_effect_thread = PyNone
    /\ threads = << >>
    /\ pc = [w \in Contexts |-> "idle"]
    /\ call = [w \in Contexts |-> NoCall]
    /\ ncalls = 0
    /\ invocations = 0
    /\ raised = {}
    /\ excepthook = {}
    /\ observed = _state

\* One logical writer.
Init == InitCell /\ ctx = {1}

\* A Dependent cell used by one writer, or by two calling contexts with no
\* lock between them.
InitConcurrent == InitCell /\ _dependent = TRUE /\ ctx \in {{1}, Contexts}

\* ----------------------------------------------------------- the property
\* SideEffect.state: the getter returns self._state.
state == _state

\* Mutant: the getter takes a lock that setState holds for the whole call.
Read_under_lock ==
    /\ \A w \in ctx : pc[w] = "idle"
    /\ observed' = state
    /\ UNCHANGED <<cell, threads, ctx, pc, call, ncalls, invocations, raised,
                   excepthook>>

\* A calling context reads the state property.
Read ==
    /\ observed' = state
    /\ UNCHANGED <<cell, threads, ctx, pc, call, ncalls, invocations, raised,
                   excepthook>>

\* --------------------------------------------------------------- setState
\* Lines 91-94: the arguments are type-checked, then the per-call mode
\* defaults to the cell's.  A TypeError leaves setState at once.
setState(w, value, asynchronous, cancel_side_effect) ==
    /\ pc[w] = "idle"
    /\ ncalls < MaxCalls
    /\ ncalls' = ncalls + 1
    /\ LET entry == [NoCall EXCEPT
                        !.outcome = "running",
                        !.value = value,
                        !.given = asynchronous,
                        !.asynchronous = asynchronous,
                        !.cancel_side_effect = cancel_side_effect,
                        !.before = invocations]
           accepted ==
               /\ asynchronous # PyNone => typecheck(asynchronous, "bool")
               /\ typecheck(cancel_side_effect, "bool")
       IN  IF ~accepted
           THEN /\ call' = [call EXCEPT ![w] = [entry EXCEPT !.outcome = "TypeError"]]
                /\ pc' = pc
           ELSE /\ call' = [call EXCEPT ![w] =
                     [entry EXCEPT !.asynchronous =
                         IF asynchronous = PyNone
                         THEN PyBool(_asynchronous)
                         ELSE asynchronous]]
                /\ pc' = [pc EXCEPT ![w] = "L96"]
    /\ UNCHANGED <<cell, threads, ctx, invocations, raised, excepthook, observed>>

\* Mutant: the wait for the recorded thread is missing.
L96_never_joins(w) ==
    /\ pc[w] = "L96"
    /\ pc' = [pc EXCEPT ![w] = "L100"]
    /\ UNCHANGED <<cell, threads, ctx, call, ncalls, invocations, raised,
                   excepthook, observed>>

\* Mutant: the recorded thread is joined whatever the sequencing.
L96_always_joins(w) ==
    /\ pc[w] = "L96"
    /\ pc' = [pc EXCEPT ![w] =
           IF truthy(_side_effect_thread) THEN "L97" ELSE "L100"]
    /\ UNCHANGED <<cell, threads, ctx, call, ncalls, invocations, raised,
                   excepthook, observed>>

\* Mutant: only a write that is going to launch a thread waits for the
\* recorded one.
L96_joins_only_launching(w) ==
    /\ pc[w] = "L96"
    /\ pc' = [pc EXCEPT ![w] =
           IF /\ truthy(_side_effect_thread) /\ _dependent
              /\ truthy(call[w].asynchronous)
              /\ ~truthy(call[w].cancel_side_effect)
              /\ ~_side_effect_paused
           THEN "L97" ELSE "L100"]
    /\ UNCHANGED <<cell, threads, ctx, call, ncalls, invocations, raised,
                   excepthook, observed>>

\* Mutant: the value is committed before the recorded thread is joined.
L96_commits_first(w) ==
    /\ pc[w] = "L96"
    /\ _state' = call[w].value
    /\ pc' = [pc EXCEPT ![w] =
           IF truthy(_side_effect_thread) /\ _dependent THEN "L97" ELSE "L100"]
    /\ UNCHANGED <<_asynchronous, _dependent, _side_effect_paused,
                   _side_effect_thread, threads, ctx, call, ncalls, invocations,
                   raised, excepthook, observed>>

\* Mutant: the sequencing flag is read inverted.
L96_tests_not_dependent(w) ==
    /\ pc[w] = "L96"
    /\ pc' = [pc EXCEPT ![w] =
           IF truthy(_side_effect_thread) /\ ~_dependent THEN "L97" ELSE "L100"]
    /\ UNCHANGED <<cell, threads, ctx, call, ncalls, invocations, raised,
                   excepthook, observed>>

\* Line 96: if self._side_effect_thread and self._dependent:
L96(w) ==
    /\ pc[w] = "L96"
    /\ pc' = [pc EXCEPT ![w] =
           IF truthy(_side_effect_thread) /\ _dependent THEN "L97" ELSE "L100"]
    /\ UNCHANGED <<cell, threads, ctx, call, ncalls, invocations, raised,
                   excepthook, observed>>

\* Line 97: self._side_effect_thread.join() reads the field again and calls
\* join on what it finds: None has no join (AttributeError), a Thread that
\* was never started cannot be joined (RuntimeError).
L97(w) ==
    /\ pc[w] = "L97"
    /\ CASE _side_effect_thread = PyNone ->
              /\ pc' = [pc EXCEPT ![w] = "idle"]
              /\ call' = [call EXCEPT ![w].outcome = "AttributeError"]
         [] _side_effect_thread # PyNone
            /\ threads[_side_effect_thread.id] = "created" ->
              /\ pc' = [pc EXCEPT ![w] = "idle"]
              /\ call' = [call EXCEPT ![w].outcome = "RuntimeError"]
         [] OTHER ->
              /\ pc' = [pc EXCEPT ![w] = "join"]
              /\ call' = [call EXCEPT ![w].joinee = _side_effect_thread]
    /\ UNCHANGED <<cell, threads, ctx, ncalls, invocations, raised, excepthook,
                   observed>>

\* Mutant: join re-raises what the target raised, as a future's result does.
join_reraises(w) ==
    /\ pc[w] = "join"
    /\ threads[call[w].joinee.id] = "finished"
    /\ IF call[w].joinee.id \in raised
       THEN /\ pc' = [pc EXCEPT ![w] = "idle"]
            /\ call' = [call EXCEPT ![w].outcome = "EffectFailure"]
       ELSE /\ pc' = [pc EXCEPT ![w] = "L98"]
            /\ call' = call
    /\ UNCHANGED <<cell, threads, ctx, ncalls, invocations, raised, excepthook,
                   observed>>

\* Mutant: join(timeout) returns whether or not the thread has finished.
join_with_timeout(w) ==
    /\ pc[w] = "join"
    /\ pc' = [pc EXCEPT ![w] = "L98"]
    /\ UNCHANGED <<cell, threads, ctx, call, ncalls, invocations, raised, excepthook,
                   observed>>

\* Thread.join() returns once the thread has finished, whatever became of
\* its target: it returns None and re-raises nothing.
join(w) ==
    /\ pc[w] = "join"
    /\ threads[call[w].joinee.id] = "finished"
    /\ pc' = [pc EXCEPT ![w] = "L98"]
    /\ UNCHANGED <<cell, threads, ctx, call, ncalls, invocations, raised, excepthook,
                   observed>>

\* Mutant: the wait is a loop, "while self._side_effect_thread and
\* self._dependent: join()", that never clears the field.
L98_tests_again(w) ==
    /\ pc[w] = "L98"
    /\ pc' = [pc EXCEPT ![w] = "L96"]
    /\ UNCHANGED <<cell, threads, ctx, call, ncalls, invocations, raised,
                   excepthook, observed>>

\* Mutant: the joined thread stays recorded.
L98_keeps_thread(w) ==
    /\ pc[w] = "L98"
    /\ pc' = [pc EXCEPT ![w] = "L100"]
    /\ UNCHANGED <<cell, threads, ctx, call, ncalls, invocations, raised,
                   excepthook, observed>>

\* Line 98: self._side_effect_thread = None
L98(w) ==
    /\ pc[w] = "L98"
    /\ _side_effect_thread' = PyNone
    /\ pc' = [pc EXCEPT ![w] = "L100"]
    /\ UNCHANGED <<_state, _asynchronous, _dependent, _side_effect_paused,
                   threads, ctx, call, ncalls, invocations, raised, excepthook,
                   observed>>

\* Mutant: the early return of line 102 comes before the commit.
L100_returns_before_commit(w) ==
    /\ pc[w] = "L100"
    /\ IF truthy(call[w].cancel_side_effect) \/ _side_effect_paused
       THEN /\ pc' = [pc EXCEPT ![w] = "idle"]
            /\ call' = [call EXCEPT ![w].outcome = "ok"]
            /\ _state' = _state
       ELSE /\ pc' = [pc EXCEPT ![w] = "L102"]
            /\ call' = call
            /\ _state' = call[w].value
    /\ UNCHANGED <<_asynchronous, _dependent, _side_effect_paused,
                   _side_effect_thread, threads, ctx, ncalls, invocations,
                   raised, excepthook, observed>>

\* Line 100: self._state = value
L100(w) ==
    /\ pc[w] = "L100"
    /\ _state' = call[w].value
    /\ pc' = [pc EXCEPT ![w] = "L102"]
    /\ UNCHANGED <<_asynchronous, _dependent, _side_effect_paused,
                   _side_effect_thread, threads, ctx, call, ncalls,
                   invocations, raised, excepthook, observed>>

\* Mutant: the per-call mode is computed and then discarded.
L102_discards_override(w) ==
    /\ pc[w] = "L102"
    /\ IF truthy(call[w].cancel_side_effect) \/ _side_effect_paused
       THEN /\ pc' = [pc EXCEPT ![w] = "idle"]
            /\ call' = [call EXCEPT ![w].outcome = "ok"]
       ELSE /\ pc' = [pc EXCEPT ![w] = IF _asynchronous THEN "L105" ELSE "L110"]
            /\ call' = call
    /\ UNCHANGED <<cell, threads, ctx, ncalls, invocations, raised, excepthook,
                   observed>>

\* Mutant: the pause flag is read inverted.
L102_pause_inverted(w) ==
    /\ pc[w] = "L102"
    /\ IF truthy(call[w].cancel_side_effect) \/ ~_side_effect_paused
       THEN /\ pc' = [pc EXCEPT ![w] = "idle"]
            /\ call' = [call EXCEPT ![w].outcome = "ok"]
       ELSE /\ pc' = [pc EXCEPT ![w] =
                  IF truthy(call[w].asynchronous) THEN "L105" ELSE "L110"]
            /\ call' = call
    /\ UNCHANGED <<cell, threads, ctx, ncalls, invocations, raised, excepthook,
                   observed>>

\* Mutant: the pause flag is not read.
L102_ignores_pause(w) ==
    /\ pc[w] = "L102"
    /\ IF truthy(call[w].cancel_side_effect)
       THEN /\ pc' = [pc EXCEPT ![w] = "idle"]
            /\ call' = [call EXCEPT ![w].outcome = "ok"]
       ELSE /\ pc' = [pc EXCEPT ![w] =
                  IF truthy(call[w].asynchronous) THEN "L105" ELSE "L110"]
            /\ call' = call
    /\ UNCHANGED <<cell, threads, ctx, ncalls, invocations, raised, excepthook,
                   observed>>

\* Mutant: cancel_side_effect is not read.
L102_ignores_cancel(w) ==
    /\ pc[w] = "L102"
    /\ IF _side_effect_paused
       THEN /\ pc' = [pc EXCEPT ![w] = "idle"]
            /\ call' = [call EXCEPT ![w].outcome = "ok"]
       ELSE /\ pc' = [pc EXCEPT ![w] =
                  IF truthy(call[w].asynchronous) THEN "L105" ELSE "L110"]
            /\ call' = call
    /\ UNCHANGED <<cell, threads, ctx, ncalls, invocations, raised, excepthook,
                   observed>>

\* Line 102: if cancel_side_effect or self._side_effect_paused: return
\* Line 104: if asynchronous: ... else: ...
L102(w) ==
    /\ pc[w] = "L102"
    /\ IF truthy(call[w].cancel_side_effect) \/ _side_effect_paused
       THEN /\ pc' = [pc EXCEPT ![w] = "idle"]
            /\ call' = [call EXCEPT ![w].outcome = "ok"]
       ELSE /\ pc' = [pc EXCEPT ![w] =
                  IF truthy(call[w].asynchronous) THEN "L105" ELSE "L110"]
            /\ call' = call
    /\ UNCHANGED <<cell, threads, ctx, ncalls, invocations, raised, excepthook,
                   observed>>

\* Lines 105-106: a Thread for the effect is created and recorded.
L105(w) ==
    /\ pc[w] = "L105"
    /\ threads' = Append(threads, "created")
    /\ _side_effect_thread' = PyThread(Len(threads) + 1)
    /\ call' = [call EXCEPT ![w].launched = PyThread(Len(threads) + 1)]
    /\ pc' = [pc EXCEPT ![w] = "L108"]
    /\ UNCHANGED <<_state, _asynchronous, _dependent, _side_effect_paused, ctx,
                   ncalls, invocations, raised, excepthook, observed>>

\* Mutant: the thread is started and then joined before setState returns.
L108_start_and_join(w) ==
    /\ pc[w] = "L108"
    /\ _side_effect_thread # PyNone
    /\ CASE threads[_side_effect_thread.id] = "created" ->
              /\ threads' = [threads EXCEPT ![_side_effect_thread.id] = "started"]
              /\ invocations' = invocations + 1
              /\ UNCHANGED <<pc, call>>
         [] threads[_side_effect_thread.id] = "finished" ->
              /\ pc' = [pc EXCEPT ![w] = "idle"]
              /\ call' = [call EXCEPT ![w].outcome = "ok"]
              /\ UNCHANGED <<threads, invocations>>
         [] OTHER -> FALSE
    /\ UNCHANGED <<cell, ctx, ncalls, raised, excepthook, observed>>

\* Line 108: self._side_effect_thread.start() reads the field again and
\* starts what it finds: None has no start (AttributeError), a Thread starts
\* only once (RuntimeError).  start() returns without waiting for the target.
L108(w) ==
    /\ pc[w] = "L108"
    /\ pc' = [pc EXCEPT ![w] = "idle"]
    /\ CASE _side_effect_thread = PyNone ->
              /\ call' = [call EXCEPT ![w].outcome = "AttributeError"]
              /\ UNCHANGED <<threads, invocations>>
         [] _side_effect_thread # PyNone
            /\ threads[_side_effect_thread.id] # "created" ->
              /\ call' = [call EXCEPT ![w].outcome = "RuntimeError"]
              /\ UNCHANGED <<threads, invocations>>
         [] OTHER ->
              /\ threads' = [threads EXCEPT ![_side_effect_thread.id] = "started"]
              /\ invocations' = invocations + 1
              /\ call' = [call EXCEPT ![w].outcome = "ok"]
    /\ UNCHANGED <<cell, ctx, ncalls, raised, excepthook, observed>>

\* Line 110: self._side_effect() runs on the caller.
L110(w) ==
    /\ pc[w] = "L110"
    /\ pc' = [pc EXCEPT ![w] = "effect"]
    /\ invocations' = invocations + 1
    /\ call' = [call EXCEPT ![w].effect = "running"]
    /\ UNCHANGED <<cell, threads, ctx, ncalls, raised, excepthook, observed>>

\* The effect called at line 110 returns, and setState with it.
EffectReturn(w) ==
    /\ pc[w] = "effect"
    /\ pc' = [pc EXCEPT ![w] = "idle"]
    /\ call' = [call EXCEPT ![w].outcome = "ok", ![w].effect = "returned"]
    /\ UNCHANGED <<cell, threads, ctx, ncalls, invocations, raised, excepthook,
                   observed>>

\* Mutant: setState catches what the effect raises and returns.
EffectRaise_swallowed(w) ==
    /\ pc[w] = "effect"
    /\ pc' = [pc EXCEPT ![w] = "idle"]
    /\ call' = [call EXCEPT ![w].outcome = "ok", ![w].effect = "raised"]
    /\ UNCHANGED <<cell, threads, ctx, ncalls, invocations, raised, excepthook,
                   observed>>

\* The effect called at line 110 raises: nothing in setState catches it.
EffectRaise(w) ==
    /\ pc[w] = "effect"
    /\ pc' = [pc EXCEPT ![w] = "idle"]
    /\ call' = [call EXCEPT ![w].outcome = "EffectFailure",
                            ![w].effect = "raised"]
    /\ UNCHANGED <<cell, threads, ctx, ncalls, invocations, raised, excepthook,
                   observed>>

\* ------------------------------------------------------ pause and resume
\* Lines 116 and 122.  `call` describes a context's latest setState only
\* until the context does something else.
\* Mutant: the flag is toggled instead of set.
disable_side_effect_toggles(w) ==
    /\ pc[w] = "idle"
    /\ _side_effect_paused' = ~_side_effect_paused
    /\ call' = [call EXCEPT ![w] = NoCall]
    /\ UNCHANGED <<_state, _asynchronous, _dependent, _side_effect_thread,
                   threads, ctx, pc, ncalls, invocations, raised, excepthook,
                   observed>>

disable_side_effect(w) ==
    /\ pc[w] = "idle"
    /\ _side_effect_paused' = TRUE
    /\ call' = [call EXCEPT ![w] = NoCall]
    /\ UNCHANGED <<_state, _asynchronous, _dependent, _side_effect_thread,
                   threads, ctx, pc, ncalls, invocations, raised, excepthook,
                   observed>>

enable_side_effect(w) ==
    /\ pc[w] = "idle"
    /\ _side_effect_paused' = FALSE
    /\ call' = [call EXCEPT ![w] = NoCall]
    /\ UNCHANGED <<_state, _asynchronous, _dependent, _side_effect_thread,
                   threads, ctx, pc, ncalls, invocations, raised, excepthook,
                   observed>>

\* ------------------------------------------------------ the effect threads
\* Thread(target=self._side_effect): once started, the thread is scheduled
\* and calls the effect.
ThreadRun(i) ==
    /\ threads[i] = "started"
    /\ threads' = [threads EXCEPT ![i] = "running"]
    /\ UNCHANGED <<cell, ctx, pc, call, ncalls, invocations, raised, excepthook,
                   observed>>

\* The effect returns and the thread ends.
ThreadReturn(i) ==
    /\ threads[i] = "running"
    /\ threads' = [threads EXCEPT ![i] = "finished"]
    /\ UNCHANGED <<cell, ctx, pc, call, ncalls, invocations, raised, excepthook,
                   observed>>

\* Mutant: the thread's target catches what the effect raises and drops it.
ThreadRaise_swallowed(i) ==
    /\ threads[i] = "running"
    /\ threads' = [threads EXCEPT ![i] = "finished"]
    /\ raised' = raised \cup {i}
    /\ UNCHANGED <<cell, ctx, pc, call, ncalls, invocations, excepthook, observed>>

\* The effect raises: the thread hands the exception to threading.excepthook
\* and ends.  The Thread object keeps no trace of it.
ThreadRaise(i) ==
    /\ threads[i] = "running"
    /\ threads' = [threads EXCEPT ![i] = "finished"]
    /\ raised' = raised \cup {i}
    /\ excepthook' = excepthook \cup {i}
    /\ UNCHANGED <<cell, ctx, pc, call, ncalls, invocations, observed>>

\* The effect never returns.
ThreadHang(i) ==
    /\ threads[i] = "running"
    /\ threads' = [threads EXCEPT ![i] = "hung"]
    /\ UNCHANGED <<cell, ctx, pc, call, ncalls, invocations, raised, excepthook,
                   observed>>

\* ------------------------------------------------------- specifications
Next ==
    \/ Read
    \/ \E w \in ctx, value \in Values, a \in AsynchronousArgs, c \in CancelArgs :
           setState(w, value, a, c)
    \/ \E w \in ctx : L96(w)
    \/ \E w \in ctx : L97(w)
    \/ \E w \in ctx : join(w)
    \/ \E w \in ctx : L98(w)
    \/ \E w \in ctx : L100(w)
    \/ \E w \in ctx : L102(w)
    \/ \E w \in ctx : L105(w)
    \/ \E w \in ctx : L108(w)
    \/ \E w \in ctx : L110(w)
    \/ \E w \in ctx : EffectReturn(w)
    \/ \E w \in ctx : EffectRaise(w)
    \/ \E w \in ctx : disable_side_effect(w)
    \/ \E w \in ctx : enable_side_effect(w)
    \/ \E i \in DOMAIN threads : ThreadRun(i)
    \/ \E i \in DOMAIN threads : ThreadReturn(i)
    \/ \E i \in DOMAIN threads : ThreadRaise(i)
    \/ \E i \in DOMAIN threads : ThreadHang(i)

\* One writer issues every call.
Spec == Init /\ [][Next]_vars

\* The calling contexts of a Dependent cell issue well-formed writes, none
\* of them skipped, and share the cell with no lock between them; every
\* effect returns.
NextConcurrent ==
    \/ \E w \in ctx, value \in Values, a \in AsynchronousArgs \ {PyInt(1)} :
           /\ ncalls < MaxRacingCalls
           /\ setState(w, value, a, PyBool(FALSE))
    \/ \E w \in ctx : L96(w)
    \/ \E w \in ctx : L97(w)
    \/ \E w \in ctx : join(w)
    \/ \E w \in ctx : L98(w)
    \/ \E w \in ctx : L100(w)
    \/ \E w \in ctx : L102(w)
    \/ \E w \in ctx : L105(w)
    \/ \E w \in ctx : L108(w)
    \/ \E w \in ctx : L110(w)
    \/ \E w \in ctx : EffectReturn(w)
    \/ \E i \in DOMAIN threads : ThreadRun(i)
    \/ \E i \in DOMAIN threads : ThreadReturn(i)

SpecConcurrent == InitConcurrent /\ [][NextConcurrent]_vars

\* One writer issues every call and every effect invocation terminates, by
\* returning or by raising; the effect does not touch the cell.
NextFair ==
    \/ \E w \in ctx, value \in Values, a \in AsynchronousArgs, c \in CancelArgs :
           /\ ncalls < MaxFairCalls
           /\ setState(w, value, a, c)
    \/ \E w \in ctx : L96(w)
    \/ \E w \in ctx : L97(w)
    \/ \E w \in ctx : join(w)
    \/ \E w \in ctx : L98(w)
    \/ \E w \in ctx : L100(w)
    \/ \E w \in ctx : L102(w)
    \/ \E w \in ctx : L105(w)
    \/ \E w \in ctx : L108(w)
    \/ \E w \in ctx : L110(w)
    \/ \E w \in ctx : EffectReturn(w)
    \/ \E w \in ctx : EffectRaise(w)
    \/ \E w \in ctx : disable_side_effect(w)
    \/ \E w \in ctx : enable_side_effect(w)
    \/ \E i \in DOMAIN threads : ThreadRun(i)
    \/ \E i \in DOMAIN threads : ThreadReturn(i)
    \/ \E i \in DOMAIN threads : ThreadRaise(i)

\* A step of the interpreter inside setState on context w, up to the return
\* or the raise of a synchronous effect.
WriterStep(w) ==
    \/ L96(w) \/ L97(w) \/ join(w) \/ L98(w) \/ L100(w) \/ L102(w)
    \/ L105(w) \/ L108(w) \/ L110(w)
    \/ EffectReturn(w) \/ EffectRaise(w)

\* A step of the i-th effect thread: it is scheduled, then its effect ends.
ThreadStep(i) ==
    /\ i \in DOMAIN threads
    /\ ThreadRun(i) \/ ThreadReturn(i) \/ ThreadRaise(i)

\* The operating system schedules every runnable thread: the caller's while
\* it is inside setState, and each effect thread until it has finished.
Fairness ==
    /\ \A w \in Contexts : WF_vars(WriterStep(w))
    /\ \A i \in 1..MaxFairCalls : WF_vars(ThreadStep(i))

SpecFair == Init /\ [][NextFair]_vars /\ Fairness

TypeOK ==
    /\ _state \in Values
    /\ _side_effect_paused \in BOOLEAN
    /\ \A i \in DOMAIN threads : threads[i] \in ThreadStatus
    /\ _side_effect_thread = PyNone \/ _side_effect_thread.id \in DOMAIN threads

\* ------------------------------------------------------------ vocabulary
\* The latest setState of context w has returned normally.
ReturnedOk(w) == pc[w] = "idle" /\ call[w].outcome = "ok"

\* The effect invocations in progress on the callers' own contexts.
OnCaller == {w \in ctx : pc[w] = "effect"}

\* The keyword arguments a caller passed are not of the documented shape.
Malformed(c) ==
    \/ c.given # PyNone /\ c.given.type # "bool"
    \/ c.cancel_side_effect.type # "bool"

\* ------------------------------------------------------------------- C1
\* C1: when a write in Sync mode (effective asynchronous false, effect not
\* skipped, cell not paused, effect returning normally) has returned, the
\* state property returns the written value, and the effect has been invoked
\* exactly once more than before the call: on the caller, no thread created.
C1_SyncWriteInvokesOnce ==
    \A w \in ctx :
        ( /\ ReturnedOk(w)
          /\ ~truthy(call[w].asynchronous)
          /\ ~truthy(call[w].cancel_side_effect)
          /\ ~_side_effect_paused )
        => /\ state = call[w].value
           /\ invocations = call[w].before + 1
           /\ call[w].effect = "returned"
           /\ call[w].launched = PyNone

\* A second Sync write in a row has returned.
C1_Witness ==
    /\ ReturnedOk(1)
    /\ call[1].effect = "returned"
    /\ call[1].before = 1
    /\ invocations = 2
    /\ threads = << >>
    /\ state = call[1].value

\* ------------------------------------------------------------------- C2
\* C2: on a Dependent cell with one writer at most one effect invocation is
\* in progress at any time, on a thread or on the caller: effect(n) has
\* finished before effect(n+1) starts.
C2_DependentEffectsSequenced ==
    _dependent => Cardinality(Unfinished) + Cardinality(OnCaller) <= 1

\* Two asynchronous effects have run one after the other and finished; a
\* third effect now runs on the caller.
C2_Witness ==
    /\ _dependent
    /\ Len(threads) = 2
    /\ threads[1] = "finished"
    /\ threads[2] = "finished"
    /\ pc[1] = "effect"

\* ------------------------------------------------------------------- C3
\* C3 as stated: on a Dependent cell, whatever the number of calling
\* contexts, a context about to create and record a new effect thread finds
\* no thread recorded.
C3_NoLaunchWhileInflight ==
    \A w \in ctx :
        (_dependent /\ pc[w] = "L105") => _side_effect_thread = PyNone

\* C3 amended: on a Dependent cell whose writes are issued by one writer, a
\* write about to create and record a new effect thread finds no thread
\* recorded, and every thread started before has finished.
C3_OneWriterNoLaunchWhileInflight ==
    Cardinality(ctx) = 1 =>
        \A w \in ctx :
            (_dependent /\ pc[w] = "L105")
            => /\ _side_effect_thread = PyNone
               /\ Unfinished = {}

\* The one writer launches again after waiting for the thread it recorded.
C3_Witness ==
    /\ ctx = {1}
    /\ _dependent
    /\ pc[1] = "L105"
    /\ call[1].joinee = PyThread(1)
    /\ threads = <<"finished">>

\* ------------------------------------------------------------------- C4
\* C4: a write that returns while the cell is paused has committed its value
\* and invoked nothing; no step taken while the cell is and stays paused
\* invokes the effect or creates a thread; a write that returns on a cell
\* that is not paused (enabled again, or never disabled), and was not
\* skipped, has invoked the effect once.
C4_PausedWrites ==
    \A w \in ctx :
        ReturnedOk(w) =>
            /\ state = call[w].value
            /\ _side_effect_paused =>
                  /\ invocations = call[w].before
                  /\ call[w].launched = PyNone
                  /\ call[w].effect = "none"
            /\ (~_side_effect_paused /\ ~truthy(call[w].cancel_side_effect)) =>
                  invocations = call[w].before + 1

C4_PausedSteps ==
    (_side_effect_paused /\ _side_effect_paused') =>
        /\ invocations' = invocations
        /\ Len(threads') = Len(threads)

C4_PausedNeverInvokes == []C4_PausedWrites /\ [][C4_PausedSteps]_vars

\* The third call has returned on a paused cell, not skipped, with a new
\* value, and the effect has never been invoked.
C4_Witness ==
    /\ _side_effect_paused
    /\ ReturnedOk(1)
    /\ ~truthy(call[1].cancel_side_effect)
    /\ ncalls = 3
    /\ invocations = 0
    /\ state = call[1].value
    /\ observed # state

\* ------------------------------------------------------------------- C5
\* C5: a write with cancel_side_effect=True never reaches the launch or the
\* call of the effect, and once it has returned the state property returns
\* its value, the invocation count is what it was, no thread was created.
C5_CancelledWrite ==
    \A w \in ctx :
        (call[w].outcome \in {"running", "ok"} /\ truthy(call[w].cancel_side_effect))
        => /\ pc[w] \notin {"L105", "L108", "L110", "effect"}
           /\ invocations = call[w].before
           /\ call[w].launched = PyNone
           /\ call[w].effect = "none"
           /\ ReturnedOk(w) => state = call[w].value

\* A skipped write with a per-call mode has returned on a cell that is not
\* paused, with a new value.
C5_Witness ==
    /\ ReturnedOk(1)
    /\ call[1].cancel_side_effect = PyBool(TRUE)
    /\ call[1].given = PyBool(FALSE)
    /\ ~_side_effect_paused
    /\ state = call[1].value
    /\ observed # state
    /\ invocations = 1

\* ------------------------------------------------------------------- C6
\* C6 as stated: whenever a write that has been issued waits for an effect,
\* the one it called or one still running from an earlier write, its value
\* is already the one readers see.
C6_NoEffectDelaysVisibility ==
    \A w \in ctx :
        pc[w] \in {"join", "effect"} => state = call[w].value

\* C6 amended: the value is committed before the write's own effect is
\* launched or called, and is what readers see once the write has returned
\* or raised from the effect; a write waits before committing only on a
\* Dependent cell, for the thread an earlier write recorded.
C6_CommittedBeforeOwnEffect ==
    \A w \in ctx :
        /\ ( \/ pc[w] \in {"L102", "L105", "L108", "L110", "effect"}
             \/ pc[w] = "idle" /\ call[w].outcome \in {"ok", "EffectFailure"} )
           => state = call[w].value
        /\ pc[w] \in {"L97", "join", "L98"} => _dependent

\* The effect runs on the caller, an earlier effect thread is still running,
\* and readers already see the new value.
C6_Witness ==
    /\ pc[1] = "effect"
    /\ Unfinished # {}
    /\ state = call[1].value
    /\ observed # state

\* ------------------------------------------------------------------- C7
\* C7: when the effect called on the caller raises, setState raises it to
\* its caller and the state property still returns the written value; from
\* the call of the effect to the raise, _state, _side_effect_paused and
\* _side_effect_thread do not change.
C7_RaisedKeepsValue ==
    \A w \in ctx :
        call[w].effect = "raised"
        => /\ pc[w] = "idle"
           /\ call[w].outcome = "EffectFailure"
           /\ state = call[w].value

C7_EffectLeavesCell ==
    \A w \in ctx :
        pc[w] = "effect"
        => /\ _state' = _state
           /\ _side_effect_paused' = _side_effect_paused
           /\ _side_effect_thread' = _side_effect_thread

C7_SyncFailurePropagates == []C7_RaisedKeepsValue /\ [][C7_EffectLeavesCell]_vars

\* A Sync write on a cell that records an earlier effect thread has raised
\* from the effect; readers see its value, which is new.
C7_Witness ==
    /\ pc[1] = "idle"
    /\ call[1].outcome = "EffectFailure"
    /\ _side_effect_thread # PyNone
    /\ state = call[1].value
    /\ observed # state

C9_WritersUnharmed ==
    \A w \in ctx :
        /\ call[w].outcome \in {"none", "running", "ok", "TypeError", "EffectFailure"}
        /\ call[w].outcome = "EffectFailure" => call[w].effect = "raised"
        /\ ( /\ pc[w] = "idle"
             /\ call[w].outcome # "none"
             /\ \/ call[w].launched # PyNone /\ call[w].launched.id \in raised
                \/ call[w].joinee # PyNone /\ call[w].joinee.id \in raised )
           => \/ call[w].outcome = "ok" /\ state = call[w].value
              \/ call[w].effect = "raised"

C9_ThreadRaiseConfined ==
    raised' # raised => UNCHANGED <<cell, pc, call>>

C9_AsyncFailureConfined == []C9_WritersUnharmed /\ [][C9_ThreadRaiseConfined]_vars

\* On a Dependent cell a write waited for a thread whose effect raised, then
\* launched its own thread and returned.
C9_Witness ==
    /\ _dependent
    /\ ReturnedOk(1)
    /\ call[1].joinee # PyNone
    /\ call[1].joinee.id \in raised
    /\ call[1].launched # PyNone
    /\ state = call[1].value

\* ------------------------------------------------------------------ C10
\* C10: a write with a malformed asynchronous or cancel_side_effect raises
\* TypeError in the step that issues it: the cell's fields, the threads and
\* the invocation count are unchanged, and it never reaches the join, the
\* commit, the launch or the call of the effect.
C10_MalformedRaises ==
    \A w \in ctx : Malformed(call[w]) => call[w].outcome = "TypeError"

C10_MalformedStep ==
    \A w \in ctx :
        (ncalls' = ncalls + 1 /\ pc[w] = "idle" /\ Malformed(call'[w])
            /\ call'[w].outcome # "none")
        => /\ pc'[w] = "idle"
           /\ call'[w].outcome = "TypeError"
           /\ UNCHANGED <<cell, threads, invocations>>

C10_MalformedFailsFirst == []C10_MalformedRaises /\ [][C10_MalformedStep]_vars

\* A malformed write has raised TypeError on a Dependent cell whose recorded
\* effect thread is still running.
C10_Witness ==
    /\ pc[1] = "idle"
    /\ call[1].outcome = "TypeError"
    /\ Malformed(call[1])
    /\ _dependent
    /\ _side_effect_thread # PyNone
    /\ threads[_side_effect_thread.id] = "running"

\* ------------------------------------------------------------------ C11
\* C11: a write given asynchronous=False never creates a thread and, when it
\* is neither skipped nor paused, returns after the effect ran on the
\* caller; a write given asynchronous=True never calls the effect on the
\* caller and, when it is neither skipped nor paused, returns with a thread
\* launched; a write given no mode uses the cell's default; and no step
\* changes the cell's default.
C11_ModeOfCall ==
    \A w \in ctx :
        LET c == call[w]
            acts == ~truthy(c.cancel_side_effect) /\ ~_side_effect_paused
        IN  c.outcome \in {"running", "ok", "EffectFailure"} =>
              /\ c.given = PyBool(FALSE) =>
                    /\ pc[w] \notin {"L105", "L108"}
                    /\ c.launched = PyNone
                    /\ (ReturnedOk(w) /\ acts) => c.effect = "returned"
              /\ c.given = PyBool(TRUE) =>
                    /\ pc[w] \notin {"L110", "effect"}
                    /\ c.effect = "none"
                    /\ (ReturnedOk(w) /\ acts) => c.launched # PyNone
              /\ c.given = PyNone => c.asynchronous = PyBool(_asynchronous)

C11_DefaultKept == _asynchronous' = _asynchronous

C11_OverrideHonoured == []C11_ModeOfCall /\ [][C11_DefaultKept]_vars

\* On a cell whose default is Sync, a write given asynchronous=True has
\* returned with its thread launched and not finished, after an earlier
\* write ran the effect on the caller.
C11_Witness ==
    /\ ~_asynchronous
    /\ ReturnedOk(1)
    /\ call[1].given = PyBool(TRUE)
    /\ call[1].launched # PyNone
    /\ call[1].launched.id \in Unfinished
    /\ call[1].before = 1

\* ------------------------------------------------------------------ C12
\* C12: the start of the effect thread at line 108 is never blocked: a write
\* at line 108 can always take that step, whatever the threads are doing,
\* and it leaves setState; a write that has returned after launching has
\* started its thread and counted one invocation, whether or not the effect
\* has begun or ended.
C12_LaunchReturnsAtOnce ==
    \A w \in ctx :
        /\ pc[w] = "L108" =>
              /\ ENABLED L108(w)
              /\ ~ENABLED (L108(w) /\ pc'[w] # "idle")
        /\ (ReturnedOk(w) /\ call[w].launched # PyNone) =>
              /\ threads[call[w].launched.id] \in
                     {"started", "running", "hung", "finished"}
              /\ invocations = call[w].before + 1

\* A write has returned while the effect it launched never finishes, and
\* an earlier effect thread has not begun.
C12_Witness ==
    /\ ReturnedOk(1)
    /\ call[1].launched = PyThread(2)
    /\ threads[2] = "hung"
    /\ threads[1] = "started"

\* ------------------------------------------------------------------ C13
\* C13: on an Independent cell no write ever reaches the join of lines
\* 97-98: it joins no thread, whatever threads earlier writes launched.
C13_IndependentNeverWaits ==
    ~_dependent =>
        \A w \in ctx :
            /\ pc[w] \notin {"L97", "join", "L98"}
            /\ call[w].joinee = PyNone

\* Two Async writes were issued back to back on an Independent cell: the
\* second has returned and both effects are running.
C13_Witness ==
    /\ ~_dependent
    /\ ReturnedOk(1)
    /\ call[1].launched = PyThread(2)
    /\ threads = <<"running", "running">>
    /\ ncalls = 2

\* ------------------------------------------------------------------ C14
\* C14: disable_side_effect leaves the flag true and enable_side_effect
\* leaves it false, from any state; either can be called by an idle context
\* in any state; a step that changes the flag, and a step of either
\* operation, changes no other field of the cell, no thread, no invocation
\* count; and a started or running effect thread can take its next step
\* whatever the flag is.
C14_Frame ==
    UNCHANGED <<_state, _asynchronous, _dependent, _side_effect_thread, threads,
                pc, ncalls, invocations, raised, excepthook>>

C14_PauseSteps ==
    /\ _side_effect_paused' # _side_effect_paused => C14_Frame
    /\ \A w \in ctx :
        /\ disable_side_effect(w) => (_side_effect_paused' = TRUE /\ C14_Frame)
        /\ enable_side_effect(w) => (_side_effect_paused' = FALSE /\ C14_Frame)

C14_AlwaysCallable ==
    /\ \A w \in ctx :
          pc[w] = "idle" =>
              ENABLED disable_side_effect(w) /\ ENABLED enable_side_effect(w)
    /\ \A i \in DOMAIN threads :
          /\ threads[i] = "started" => ENABLED ThreadRun(i)
          /\ threads[i] = "running" => ENABLED ThreadReturn(i)

C14_PauseOnlySetsFlag == []C14_AlwaysCallable /\ [][C14_PauseSteps]_vars

\* The cell was disabled after a write launched an effect thread, and that
\* thread is running.
C14_Witness ==
    /\ _side_effect_paused
    /\ call[1] = NoCall
    /\ _side_effect_thread = PyThread(1)
    /\ threads = <<"running">>

\* ------------------------------------------------------------------ C15
\* C15: a read of the state property can be taken in every state, whatever
\* the writes and the effects are doing; a step that changes what the last
\* read returned, and every read, returns the current _state and changes
\* nothing of the cell, the threads, the writes or the invocation count.
C15_Frame ==
    UNCHANGED <<cell, threads, ctx, pc, call, ncalls, invocations, raised,
                excepthook>>

C15_ReadSteps ==
    /\ observed' # observed => (observed' = _state /\ C15_Frame)
    /\ Read => (observed' = _state /\ C15_Frame)

C15_ReadIsPure == [](ENABLED Read) /\ [][C15_ReadSteps]_vars

\* A Dependent write is blocked on an effect thread that never finishes, its
\* value is not committed, and a read has returned the value still in place.
C15_Witness ==
    /\ pc[1] = "join"
    /\ threads[call[1].joinee.id] = "hung"
    /\ state # call[1].value
    /\ observed = state
    /\ ncalls = 3

\* ------------------------------------------------------------------ C16
\* C16: a hung effect thread stays hung; while the thread recorded on a
\* Dependent cell is hung it stays recorded, no write is past the join of
\* line 97, a write at the join cannot leave it and has not returned, and
\* _state and the invocation count do not change.
C16_HungRecorded ==
    /\ _dependent
    /\ _side_effect_thread # PyNone
    /\ threads[_side_effect_thread.id] = "hung"

C16_Blocked ==
    /\ \A w \in ctx :
          (pc[w] = "join" /\ threads[call[w].joinee.id] = "hung")
          => (~ENABLED join(w) /\ call[w].outcome = "running")
    /\ C16_HungRecorded =>
          \A w \in ctx : pc[w] \in {"idle", "L96", "L97", "join"}

C16_HungSteps ==
    /\ \A i \in DOMAIN threads : threads[i] = "hung" => threads'[i] = "hung"
    /\ C16_HungRecorded =>
          /\ _side_effect_thread' = _side_effect_thread
          /\ _state' = _state
          /\ invocations' = invocations
          /\ \A w \in ctx : pc[w] = "join" => pc'[w] = "join"

C16_HungBlocksNextWrite == []C16_Blocked /\ [][C16_HungSteps]_vars

\* On a Dependent cell a skipped write waits for a hung effect thread, with
\* its value not committed.
C16_Witness ==
    /\ C16_HungRecorded
    /\ pc[1] = "join"
    /\ call[1].joinee = _side_effect_thread
    /\ call[1].cancel_side_effect = PyBool(TRUE)
    /\ state # call[1].value

\* ------------------------------------------------------------------ C17
\* C17 as stated: in either sequencing mode the effect threads launched and
\* not finished are never more than the one the cell tracks.
C17_NoAccumulation == Cardinality(Unfinished) <= 1

\* C17 amended: the cell tracks at most one thread, and on a Dependent cell
\* with one writer every effect thread launched and not finished is the
\* tracked one.
C17_DependentTracksUnfinished ==
    /\ _side_effect_thread = PyNone \/ _side_effect_thread.id \in DOMAIN threads
    /\ _dependent => \A i \in Unfinished : _side_effect_thread = PyThread(i)

\* On a Dependent cell the second effect thread runs and is the tracked
\* one; the first has finished.
C17_Witness ==
    /\ _dependent
    /\ threads = <<"finished", "running">>
    /\ _side_effect_thread = PyThread(2)

\* ------------------------------------------------------------------ C18
\* C18: on a Dependent cell with one writer, _side_effect_thread goes from
\* None to a thread only at lines 105-106 of an asynchronous write, and from
\* a thread to None only at line 98 after that thread finished; every write
\* that passed the typecheck is past lines 96-98 with the field None, whatever
\* its cancel_side_effect and the pause flag; so when such a write has
\* returned the field is None or the thread that write launched.
C18_HandleAtEachLine ==
    _dependent =>
        \A w \in ctx :
            /\ pc[w] \in {"L100", "L102", "L105", "L110", "effect"}
               => _side_effect_thread = PyNone
            /\ pc[w] = "L108"
               => (_side_effect_thread = call[w].launched /\ call[w].launched # PyNone)
            /\ (pc[w] = "idle" /\ call[w].outcome \in {"ok", "EffectFailure"})
               => _side_effect_thread \in {PyNone, call[w].launched}

C18_HandleSteps ==
    (_dependent /\ _side_effect_thread' # _side_effect_thread) =>
        \/ /\ _side_effect_thread = PyNone
           /\ _side_effect_thread' = PyThread(Len(threads) + 1)
           /\ \E w \in ctx : pc[w] = "L105" /\ truthy(call[w].asynchronous)
        \/ /\ _side_effect_thread # PyNone
           /\ _side_effect_thread' = PyNone
           /\ threads[_side_effect_thread.id] = "finished"
           /\ \E w \in ctx : pc[w] = "L98" /\ call[w].joinee = _side_effect_thread

C18_HandleLifecycle == []C18_HandleAtEachLine /\ [][C18_HandleSteps]_vars

\* On a Dependent cell a skipped write waited for the recorded thread and
\* returned with the field cleared.
C18_Witness ==
    /\ _dependent
    /\ ReturnedOk(1)
    /\ truthy(call[1].cancel_side_effect)
    /\ call[1].joinee # PyNone
    /\ call[1].launched = PyNone
    /\ _side_effect_thread = PyNone

\* ------------------------------------------------------------------ C19
\* C19: on a Dependent cell with one writer, _state does not change while
\* an effect thread is launched and not finished, and at the launch of
\* line 108 _state is the value of the launching write.
C19_LaunchedWithValue ==
    \A w \in ctx : pc[w] = "L108" => state = call[w].value

C19_ValueKept ==
    (_dependent /\ Unfinished # {}) => _state' = _state

C19_ValueStableUnderEffect == []C19_LaunchedWithValue /\ [][C19_ValueKept]_vars

\* On a Dependent cell a write of another value waits at the join while the
\* effect thread of the earlier write runs.
C19_Witness ==
    /\ _dependent
    /\ pc[1] = "join"
    /\ threads[call[1].joinee.id] = "running"
    /\ state # call[1].value
    /\ observed = state

\* ------------------------------------------------------------------ C20
\* C20: with one writer, effects that terminate and fair scheduling of the
\* caller and of the effect threads, every setState that has been entered
\* eventually returns or raises, on Dependent and Independent cells and for
\* synchronous and asynchronous effects.
C20_EveryWriteReturns ==
    \A w \in Contexts : (pc[w] # "idle") ~> (pc[w] = "idle")

\* On a Dependent cell a write waited for the effect thread of an earlier
\* write and has returned.
C20_Witness ==
    /\ _dependent
    /\ ReturnedOk(1)
    /\ call[1].joinee # PyNone
    /\ threads[call[1].joinee.id] = "finished"

====
